---- MODULE Spec2Model ----
(***************************************************************************)
(* CLIP graph builders of examples/clip/model.py and                       *)
(* examples/clip/model_mlx.py.                                             *)
(*                                                                         *)
(* Every builder is a pure function from construction arguments to a      *)
(* graph.  A state records the last builder that ran (comp), the          *)
(* arguments and input tensors it was given (args) and the graph it       *)
(* produced (out): the shapes of its named tensors, the expression each   *)
(* named output computes, and whether construction raised.                *)
(*                                                                         *)
(* Tensors are modelled by their shape (a sequence of naturals) and by    *)
(* the expression that computes them (a term: operator name, integer      *)
(* indices, argument terms).  Two outputs are the same tensor exactly     *)
(* when their terms are equal.                                             *)
(***************************************************************************)
EXTENDS Integers, Sequences, FiniteSets, TLC

VARIABLES comp, args, out

vars == <<comp, args, out>>

(* ------------------------------ bounds -------------------------------- *)
MaxDim == 4
MaxHeads == 3
MaxBatch == 2
MaxLen == 2
MaxPlanes == 2
MaxStride == 2
MaxSide == 4
PrefixLen == 2
MaxP == 3
MaxLayers == 3
MaxBlocks == 3

(* ----------------------- constants of the source ---------------------- *)
\* mask=IOKey("mask", shape=(77, 77)) and Arange(stop=77)
MaskLen == 77

(* ------------------------------ terms --------------------------------- *)
Term(op, idx, targs) == [op |-> op, idx |-> idx, args |-> targs]

Sym(name) == Term(name, <<>>, <<>>)

App(op, t) == Term(op, <<>>, <<t>>)

Add(a, b) == Term("add", <<>>, <<a, b>>)

(* ------------------------- shape primitives --------------------------- *)
\* the shape of a tensor that cannot be built (shape mismatch)
BadShape == <<-1>>

RECURSIVE Prod(_)
Prod(s) == IF Len(s) = 0 THEN 1 ELSE Head(s) * Prod(Tail(s))

\* Tensor.reshape(target): at most one -1, inferred from the element count
ReshapeShape(s, target) ==
    LET holes == {i \in 1..Len(target) : target[i] = -1}
        known == Prod([i \in 1..Len(target) |->
                          IF target[i] = -1 THEN 1 ELSE target[i]])
    IN  IF s = BadShape \/ known <= 0 \/ Cardinality(holes) > 1 THEN BadShape
        ELSE IF holes = {}
             THEN (IF Prod(s) = known THEN target ELSE BadShape)
        ELSE IF Prod(s) % known = 0
             THEN [i \in 1..Len(target) |->
                      IF target[i] = -1 THEN Prod(s) \div known ELSE target[i]]
        ELSE BadShape

\* Tensor.transpose(axes), axes zero-based
TransposeShape(s, axes) ==
    IF s = BadShape \/ Len(s) # Len(axes) THEN BadShape
    ELSE [i \in 1..Len(axes) |-> s[axes[i] + 1]]

\* Tensor[..., k] on axis `axis` (zero-based): the axis is dropped
SelectShape(s, axis) ==
    IF s = BadShape \/ Len(s) <= axis THEN BadShape
    ELSE [i \in 1..(Len(s) - 1) |-> IF i <= axis THEN s[i] ELSE s[i + 1]]

\* Linear(out_features): the last axis becomes out_features
LinearShape(s, out_features) ==
    IF s = BadShape \/ Len(s) = 0 THEN BadShape
    ELSE [i \in 1..Len(s) |-> IF i = Len(s) THEN out_features ELSE s[i]]

\* s padded on the left with 1s up to rank n (broadcasting aligns right)
PadRank(s, n) ==
    [i \in 1..n |-> IF i <= n - Len(s) THEN 1 ELSE s[i - (n - Len(s))]]

\* elementwise a + b (or a / b) with broadcasting
AddShape(a, b) ==
    LET n == IF Len(a) > Len(b) THEN Len(a) ELSE Len(b)
        pa == PadRank(a, n)
        pb == PadRank(b, n)
    IN  IF a = BadShape \/ b = BadShape THEN BadShape
        ELSE IF \A i \in 1..n : pa[i] = pb[i] \/ pa[i] = 1 \/ pb[i] = 1
             THEN [i \in 1..n |-> IF pa[i] = 1 THEN pb[i] ELSE pa[i]]
        ELSE BadShape

\* a @ w for a weight w of shape <<in, out>>
MatMulShape(a, w) ==
    IF a = BadShape \/ w = BadShape \/ Len(a) = 0 \/ Len(w) # 2 THEN BadShape
    ELSE IF a[Len(a)] # w[1] THEN BadShape
    ELSE [i \in 1..Len(a) |-> IF i = Len(a) THEN w[2] ELSE a[i]]

\* floor((n + 2 * padding - kernel) / stride) + 1, the output length of a
\* convolution or pooling window along one axis
WindowLen(n, kernel, stride, padding) ==
    ((n + 2 * padding - kernel) \div stride) + 1

\* Convolution2D(kernel_size, out_channels, stride, padding) on (B, C, H, W)
Conv2DShape(s, kernel, out_channels, stride, padding) ==
    IF s = BadShape \/ Len(s) # 4 THEN BadShape
    ELSE IF WindowLen(s[3], kernel, stride, padding) <= 0
            \/ WindowLen(s[4], kernel, stride, padding) <= 0 THEN BadShape
    ELSE <<s[1], out_channels, WindowLen(s[3], kernel, stride, padding),
           WindowLen(s[4], kernel, stride, padding)>>

\* MaxPool2D(kernel_size) on (B, C, H, W): the stride is the kernel size
MaxPool2DShape(s, kernel) ==
    IF s = BadShape \/ Len(s) # 4 THEN BadShape
    ELSE IF WindowLen(s[3], kernel, kernel, 0) <= 0
            \/ WindowLen(s[4], kernel, kernel, 0) <= 0 THEN BadShape
    ELSE <<s[1], s[2], WindowLen(s[3], kernel, kernel, 0),
           WindowLen(s[4], kernel, kernel, 0)>>

\* Concat(axis)([a, b]): the axis lengths add, the other axes agree
ConcatShape(a, b, axis) ==
    IF a = BadShape \/ b = BadShape \/ Len(a) # Len(b) \/ Len(a) <= axis
    THEN BadShape
    ELSE IF \E i \in 1..Len(a) : i # axis + 1 /\ a[i] # b[i] THEN BadShape
    ELSE [i \in 1..Len(a) |-> IF i = axis + 1 THEN a[i] + b[i] ELSE a[i]]

\* the length of v[lo:hi] for a vector of n entries
SliceLen(n, lo, hi) ==
    LET l == IF lo > n THEN n ELSE lo
        h == IF hi > n THEN n ELSE hi
    IN  IF h > l THEN h - l ELSE 0

\* the scalings by 1/sqrt(head_dim) that ScaledDotProduct applies itself
SdpScalings == 1

\* ScaledDotProduct(q, k, v, attn_mask): q (.., L, d), k (.., S, d),
\* v (.., S, dv), optional mask broadcastable to (L, S); result (.., L, dv).
\* mask = <<>> stands for "no mask".
ScaledDotProductShape(q, k, v, mask) ==
    LET n == Len(q)
    IN  IF q = BadShape \/ k = BadShape \/ v = BadShape THEN BadShape
        ELSE IF n < 2 \/ Len(k) # n \/ Len(v) # n THEN BadShape
        ELSE IF \E i \in 1..(n - 2) : q[i] # k[i] \/ q[i] # v[i] THEN BadShape
        ELSE IF q[n] # k[n] \/ k[n - 1] # v[n - 1] THEN BadShape
        ELSE IF mask # <<>> /\
                ~(/\ Len(mask) = 2
                  /\ mask[1] \in {1, q[n - 1]}
                  /\ mask[2] \in {1, k[n - 1]}) THEN BadShape
        ELSE [i \in 1..n |-> IF i = n THEN v[n] ELSE q[i]]

(* --------------------- model.py: multi_head_attention ----------------- *)
\* variant of MergeHeads: the heads are merged without moving the head axis
\* back behind the sequence axis
MergeHeadsNoTranspose(attn, B, L) ==
    IF attn = BadShape THEN BadShape
    ELSE ReshapeShape(attn, <<B, attn[2], -1>>)

\* block.attention.transpose((0, 2, 1, 3)).reshape((B, L, -1))
\* (model_mlx.py: block.scores.transpose((0, 2, 1, 3)).reshape((B, L, -1)))
MergeHeads(attn, B, L) ==
    ReshapeShape(TransposeShape(attn, <<0, 2, 1, 3>>), <<B, L, -1>>)

\* assert d_model % n_head == 0
AssertDivisible(d_model, n_head) == d_model % n_head = 0

\* in_proj[:, :, k].reshape((B, L, -1)).reshape((B, L, n_head, -1))
\*                 .transpose((0, 2, 1, 3))
SplitHeads(in_proj_r, B, L, n_head) ==
    TransposeShape(
        ReshapeShape(ReshapeShape(SelectShape(in_proj_r, 2), <<B, L, -1>>),
                     <<B, L, n_head, -1>>),
        <<0, 2, 1, 3>>)

\* in_proj.reshape((B, L, 3, -1))[:, :, k]: the last axis of the fused
\* projection is cut row-major into 3 rows, so row k holds the features
\* [k * w, (k + 1) * w) for w the inferred row width
FusedSlice(in_proj_r, k) == <<k * in_proj_r[4], (k + 1) * in_proj_r[4]>>

\* the mask shape the fused block declares for its "mask" input
DeclaredMaskShape == <<MaskLen, MaskLen>>

multi_head_attention(d_model, n_head, use_attn_mask, qshape) ==
    LET B == qshape[1]
        L == qshape[2]
        in_proj == LinearShape(qshape, 3 * d_model)
        in_proj_r == ReshapeShape(in_proj, <<B, L, 3, -1>>)
        queries == SplitHeads(in_proj_r, B, L, n_head)
        keys == SplitHeads(in_proj_r, B, L, n_head)
        values == SplitHeads(in_proj_r, B, L, n_head)
        attention == ScaledDotProductShape(queries, keys, values,
                        IF use_attn_mask THEN DeclaredMaskShape ELSE <<>>)
        values_hat == MergeHeads(attention, B, L)
    IN  IF ~AssertDivisible(d_model, n_head)
        THEN [failed |-> TRUE, heads |-> BadShape, shape |-> BadShape,
              scalings |-> 0, q_slice |-> <<>>, k_slice |-> <<>>,
              v_slice |-> <<>>]
        ELSE [failed |-> FALSE,
              heads |-> queries,
              shape |-> LinearShape(values_hat, d_model),
              scalings |-> SdpScalings,
              q_slice |-> FusedSlice(in_proj_r, 0),
              k_slice |-> FusedSlice(in_proj_r, 1),
              v_slice |-> FusedSlice(in_proj_r, 2)]

(* ----------------------- model_mlx.py: attention ---------------------- *)
attention(dims, num_heads, use_mask, qshape, kshape) ==
    LET queries_proj == LinearShape(qshape, dims)
        keys_proj == LinearShape(kshape, dims)
        values_proj == LinearShape(kshape, dims)
        B == queries_proj[1]
        L == queries_proj[2]
        S == keys_proj[2]
        queries == TransposeShape(
                      ReshapeShape(queries_proj, <<B, L, num_heads, -1>>),
                      <<0, 2, 1, 3>>)
        keys == TransposeShape(
                      ReshapeShape(keys_proj, <<B, S, num_heads, -1>>),
                      <<0, 2, 1, 3>>)
        values == TransposeShape(
                      ReshapeShape(values_proj, <<B, S, num_heads, -1>>),
                      <<0, 2, 1, 3>>)
        scores == ScaledDotProductShape(queries, keys, values,
                      IF use_mask THEN <<MaskLen, MaskLen>> ELSE <<>>)
        values_hat == MergeHeads(scores, B, L)
    IN  [failed |-> FALSE,
         heads |-> queries,
         shape |-> LinearShape(values_hat, dims),
         scalings |-> SdpScalings]

(* ------------------ model.py: residual_attention_block ---------------- *)
\* mlp_resblock: Linear(d_model * 4) -> quick_gelu -> Linear(d_model)
mlp_resblock(d_model, xshape) ==
    LinearShape(LinearShape(xshape, d_model * 4), d_model)

\* block |= Buffer()(input + block.mlp_output, output=IOKey("output"))
ResidualOutput(input, attn_output, mlp_output) == Add(input, mlp_output)

residual_attention_block(d_model, n_head, use_attn_mask, xshape) ==
    LET input == Sym("input")
        ln_1 == App("LN1", input)
        attn_output == App("Attn", ln_1)
        ln_2 == App("LN2", Add(input, attn_output))
        mlp_output == App("MLP", ln_2)
        Built(attn, sum1shape, mlp_shape) ==
            IF ~AssertDivisible(d_model, n_head) \/ attn.failed
            THEN [failed |-> TRUE, shape |-> BadShape, sum1 |-> BadShape,
                  attn_shape |-> BadShape, mlp_shape |-> BadShape,
                  attention |-> input, output |-> input]
            ELSE [failed |-> FALSE,
                  shape |-> AddShape(xshape, mlp_shape),
                  sum1 |-> sum1shape,
                  attn_shape |-> attn.shape,
                  mlp_shape |-> mlp_shape,
                  attention |-> attn_output,
                  output |-> ResidualOutput(input, attn_output, mlp_output)]
        Summed(attn, sum1shape) ==
            Built(attn, sum1shape, mlp_resblock(d_model, sum1shape))
        Attended(attn) == Summed(attn, AddShape(xshape, attn.shape))
    IN  Attended(multi_head_attention(d_model, n_head, use_attn_mask, xshape))

(* ---------------------- model_mlx.py: encode_layer -------------------- *)
\* variant of mlp: the second Linear, back to hidden_size, is left out
mlpNoProjection(hidden_size, intermediate_size, xshape) ==
    LinearShape(xshape, intermediate_size)

\* mlp: Linear(intermediate_size) -> quick_gelu -> Linear(hidden_size)
mlp(hidden_size, intermediate_size, xshape) ==
    LinearShape(LinearShape(xshape, intermediate_size), hidden_size)

\* Buffer()(input + block.attn_output + block.mlp_output, ...)
EncodeLayerOutput(input, attn_output, mlp_output) ==
    Add(Add(input, attn_output), mlp_output)

encode_layer(hidden_size, num_attention_heads, intermediate_size, use_mask, xshape) ==
    LET input == Sym("input")
        ln_1_output == App("LN1", input)
        attn_output == App("Attn", ln_1_output)
        ln_2_output == App("LN2", Add(input, attn_output))
        mlp_output == App("MLP", ln_2_output)
        Built(self_attn, sum1shape, mlp_shape) ==
            [failed |-> FALSE,
             shape |-> AddShape(AddShape(xshape, self_attn.shape), mlp_shape),
             sum1 |-> sum1shape,
             attn_shape |-> self_attn.shape,
             mlp_shape |-> mlp_shape,
             attention |-> attn_output,
             output |-> EncodeLayerOutput(input, attn_output, mlp_output)]
        Summed(self_attn, sum1shape) ==
            Built(self_attn, sum1shape,
                  mlp(hidden_size, intermediate_size, sum1shape))
        Attended(self_attn) ==
            Summed(self_attn, AddShape(xshape, self_attn.shape))
    IN  Attended(attention(hidden_size, num_attention_heads, use_mask,
                           xshape, xshape))

(* ----------------- model.py: multi_head_attention_forward ------------- *)
\* query = IOKey("query", shape=(1, 1, 2048)), key/value (50, 1, 2048),
\* in_proj_bias (6144,), out_proj_weight (1024, 2048)
PoolEmbed == 2048
PoolTokens == 50
PoolBias == 6144
PoolOut == 1024

\* the asserts on embed_dim and head_dim are commented out
multi_head_attention_forward(embed_dim_to_check, num_heads) ==
    LET query == <<1, 1, PoolEmbed>>
        key == <<PoolTokens, 1, PoolEmbed>>
        tgt_len == query[1]
        bsz == query[2]
        embed_dim == query[3]
        head_dim == embed_dim \div num_heads
        q_bias == <<SliceLen(PoolBias, 0, embed_dim)>>
        k_bias == <<SliceLen(PoolBias, embed_dim_to_check,
                             2 * embed_dim_to_check)>>
        v_bias == <<SliceLen(PoolBias, 2 * embed_dim_to_check,
                             3 * embed_dim_to_check)>>
        q == AddShape(MatMulShape(query, <<PoolEmbed, PoolEmbed>>), q_bias)
        k == AddShape(MatMulShape(key, <<PoolEmbed, PoolEmbed>>), k_bias)
        v == AddShape(MatMulShape(key, <<PoolEmbed, PoolEmbed>>), v_bias)
        q_r == TransposeShape(
                  ReshapeShape(q, <<tgt_len, bsz * num_heads, head_dim>>),
                  <<1, 0, 2>>)
        k_r == TransposeShape(
                  ReshapeShape(k, <<-1, bsz * num_heads, head_dim>>),
                  <<1, 0, 2>>)
        v_r == TransposeShape(
                  ReshapeShape(v, <<-1, bsz * num_heads, head_dim>>),
                  <<1, 0, 2>>)
        attn == ScaledDotProductShape(q_r, k_r, v_r, <<>>)
        attn_output == ReshapeShape(TransposeShape(attn, <<1, 0, 2>>),
                                    <<tgt_len, bsz, embed_dim>>)
    IN  [failed |-> FALSE,
         heads |-> q_r,
         shape |-> AddShape(MatMulShape(attn_output, <<PoolEmbed, PoolOut>>),
                            <<PoolOut>>),
         \* q = (query @ q_proj_weight.transpose() + bias) * scaling, then
         \* ScaledDotProduct
         scalings |-> 1 + SdpScalings,
         q_slice |-> <<0, embed_dim>>,
         k_slice |-> <<embed_dim_to_check, 2 * embed_dim_to_check>>,
         v_slice |-> <<2 * embed_dim_to_check, 3 * embed_dim_to_check>>]

(* ----------------------- model.py: attention_pool2d ------------------- *)
\* input = IOKey("input", shape=(1, 2048, 7, 7))
PoolSide == 7

\* Concat(axis=0)([block.flatten, block.mean], output="cn1")
PoolConcat(flatten, mean) == flatten \o <<mean>>

\* query=block.x[:1]
PoolQuery(x) == SubSeq(x, 1, 1)

attention_pool2d(spacial_dim, embed_dim, num_heads) ==
    LET input == <<1, PoolEmbed, PoolSide, PoolSide>>
        tokens == PoolSide * PoolSide
        flat_shape == TransposeShape(
                          <<input[1], input[2], input[3] * input[4]>>,
                          <<2, 0, 1>>)
        flatten == [i \in 1..tokens |-> Term("token", <<i - 1>>, <<>>)]
        mean == Term("mean", <<>>, <<>>)
        cn1 == PoolConcat(flatten, mean)
        cn1_shape == <<flat_shape[1] + 1, flat_shape[2], flat_shape[3]>>
        x == [i \in 1..Len(cn1) |->
                 Add(cn1[i], Term("positional_embedding", <<i - 1>>, <<>>))]
        x_shape == AddShape(cn1_shape, <<PoolTokens, 1, PoolEmbed>>)
        mha == multi_head_attention_forward(embed_dim, num_heads)
    IN  [failed |-> mha.failed,
         \* Squeeze() drops every axis of length 1
         shape |-> IF mha.shape = BadShape THEN BadShape
                   ELSE SelectShape(SelectShape(mha.shape, 0), 0),
         tokens |-> tokens,
         mean |-> mean,
         x |-> x,
         x_shape |-> x_shape,
         query |-> PoolQuery(x),
         key |-> x,
         value |-> x,
         scalings |-> mha.scalings]

(* -------------------------- model.py: bottleneck ---------------------- *)
\* expansion = 4
Expansion == 4

\* variant of UsesDownsample: the stride is not looked at
UsesDownsampleNoStride(inplanes, planes, stride) ==
    inplanes # planes * Expansion

\* if stride > 1 or inplanes != planes * expansion
UsesDownsample(inplanes, planes, stride) ==
    stride > 1 \/ inplanes # planes * Expansion

\* conv1 -> bn1 -> relu1 -> conv2 (padding 1) -> bn2 -> relu2
\* -> [MaxPool2D(stride) if stride > 1] -> conv3 -> bn3
BottleneckMain(planes, stride, xshape) ==
    LET conv1 == Conv2DShape(xshape, 1, planes, 1, 0)
        conv2 == Conv2DShape(conv1, 3, planes, 1, 1)
        avgpool == IF stride > 1 THEN MaxPool2DShape(conv2, stride) ELSE conv2
    IN  Conv2DShape(avgpool, 1, planes * Expansion, 1, 0)

\* MaxPool2D(stride) -> 1x1 conv to planes * expansion -> GroupNorm
BottleneckDownsample(planes, stride, xshape) ==
    Conv2DShape(MaxPool2DShape(xshape, stride), 1, planes * Expansion, 1, 0)

bottleneck(inplanes, planes, stride, xshape) ==
    LET out1 == BottleneckMain(planes, stride, xshape)
        projected == UsesDownsample(inplanes, planes, stride)
        shortcut == IF projected
                    THEN BottleneckDownsample(planes, stride, xshape)
                    ELSE xshape
    IN  [failed |-> FALSE,
         main |-> out1,
         shortcut |-> IF projected THEN "downsample" ELSE "input",
         shortcut_shape |-> shortcut,
         shape |-> AddShape(out1, shortcut)]

(* -------------------------- model.py: make_layer ---------------------- *)
\* what one bottleneck of a chain was built with and fed
ChainBlock(i, inplanes, planes, stride, xshape) ==
    LET Fed(b) == [i |-> i, inplanes |-> inplanes, planes |-> planes,
                   stride |-> stride, input |-> xshape,
                   shortcut |-> b.shortcut, shape |-> b.shape]
    IN  Fed(bottleneck(inplanes, planes, stride, xshape))

\* _inplanes = 4 * inplanes
LaterInplanes(inplanes, planes) == 4 * inplanes

\* for i in range(1, blocks): block |= bottleneck(_inplanes, planes)(
\*     input=input_key, output=f"bottle_neck{i}")
RECURSIVE MakeLayerLoop(_, _, _, _, _)
MakeLayerLoop(i, blocks, _inplanes, planes, xshape) ==
    IF i >= blocks THEN <<>>
    ELSE CHOOSE rest \in
             {<<b>> \o MakeLayerLoop(i + 1, blocks, _inplanes, planes,
                                     b.shape) :
                 b \in {ChainBlock(i, _inplanes, planes, 1, xshape)}} : TRUE

\* the closing Buffer()(input=f"bottle_neck{i}", ...) reads the loop
\* variable i, which is unbound when the loop never ran
make_layer(inplanes, planes, blocks, stride, xshape) ==
    LET Chain(bottle_neck0) ==
            <<bottle_neck0>>
            \o MakeLayerLoop(1, blocks, LaterInplanes(inplanes, planes),
                             planes, bottle_neck0.shape)
        Built(chain) ==
            IF blocks < 2
            THEN [failed |-> TRUE, chain |-> chain, output |-> -1,
                  shape |-> BadShape]
            ELSE [failed |-> FALSE, chain |-> chain,
                  output |-> chain[Len(chain)].i,
                  shape |-> chain[chain[Len(chain)].i + 1].shape]
    IN  Built(Chain(ChainBlock(0, inplanes, planes, stride, xshape)))

(* ------------------------ model.py: modified_resnet ------------------- *)
\* input = IOKey("input", shape=(1, 3, 224, 224))
ResnetImage == 224
\* Reshape(shape=(1, 1024))
ResnetOut == 1024

\* make_layer(width, width, layers[0]); for idx in range(1, 4):
\* make_layer(width, width * (2**idx), layers[idx], stride=2)
RECURSIVE ResnetStages(_, _, _, _)
ResnetStages(idx, layers, width, xshape) ==
    IF idx >= 4 THEN <<>>
    ELSE LET planes == IF idx = 0 THEN width
                       ELSE IF idx = 1 THEN width * 2
                       ELSE IF idx = 2 THEN width * 4
                       ELSE width * 8
         IN  CHOOSE rest \in
                 {<<stage>> \o ResnetStages(idx + 1, layers, width,
                                            stage.shape) :
                     stage \in {make_layer(width, planes, layers[idx + 1],
                                           IF idx = 0 THEN 1 ELSE 2,
                                           xshape)}} : TRUE

modified_resnet(layers, output_dim, heads, input_resolution, width) ==
    LET input == <<1, 3, ResnetImage, ResnetImage>>
        conv_out_1 == Conv2DShape(input, 3, width \div 2, 2, 1)
        conv_out_2 == Conv2DShape(conv_out_1, 3, width \div 2, 1, 1)
        conv_out_3 == Conv2DShape(conv_out_2, 3, width, 1, 1)
        avgpool_out == MaxPool2DShape(conv_out_3, 2)
        attnpool == attention_pool2d(input_resolution \div 32, width * 32,
                                     heads)
        \* the input attention_pool2d declares
        pool_input == <<1, PoolEmbed, PoolSide, PoolSide>>
        Built(stages) ==
            [failed |-> \E k \in 1..4 : stages[k].failed,
             stages |-> stages,
             feature |-> stages[4].shape,
             pool_input |-> pool_input,
             shape |-> IF stages[4].shape = pool_input
                       THEN ReshapeShape(attnpool.shape, <<1, ResnetOut>>)
                       ELSE BadShape]
    IN  Built(ResnetStages(0, layers, width, avgpool_out))

(* ------------------------- indexing primitives ------------------------ *)
\* ArgMax(axis=-1) of one row: the zero-based index of its first maximum
ArgMax(row) ==
    (CHOOSE i \in 1..Len(row) :
        /\ \A j \in 1..Len(row) : row[j] <= row[i]
        /\ \A j \in 1..(i - 1) : row[j] < row[i]) - 1

\* Arange(stop=n)
Arange(n) == [i \in 1..n |-> i - 1]

\* Tensor.transpose() of a matrix given as a sequence of rows
Transpose2D(m) ==
    IF Len(m) = 0 THEN <<>>
    ELSE [j \in 1..Len(m[1]) |-> [i \in 1..Len(m) |-> m[i][j]]]

\* the hidden state of batch row b at sequence position n (zero-based)
Hidden(b, n) == Term("hidden", <<b, n>>, <<>>)

\* a (B, N, D) tensor of hidden states, batch-first
HiddenStates(B, N) ==
    [b \in 1..B |-> [n \in 1..N |-> Hidden(b - 1, n - 1)]]

\* positions probed for attention weight: the first MaxLen + 1 of a sequence
Probe == 0..MaxLen

\* the pairs (i, j), j > i, of probed positions on which position i puts a
\* non-zero softmax weight under the additive mask `at`
FutureWeights(mask) ==
    {p \in Probe \X Probe : p[2] > p[1] /\ mask[p] # "-inf"}

(* --------------------------- data dependence ------------------------- *)
\* A tensor whose two leading axes are indexed i, l (zero-based) is
\* followed as the set of triples <<i, l, s>> such that its entries at
\* (i, l) are computed from the source s.  Layer norms, Linear layers,
\* activations and elementwise sums work entry by entry along these two
\* axes; attention and reductions do not.

\* ScaledDotProduct on heads split from a (B, L, D) tensor: the entry at
\* (i, l) is a softmax-weighted sum over every l' of the same i
AttendOverAxis1(x) ==
    LET from == {<<q[1], q[3]>> : q \in x}
        positions == {q[2] : q \in x}
    IN  {<<r[1], l, r[2]>> : r \in from, l \in positions}

\* variant of AttendOverAxis1: the weighted sum runs over the leading axis
AttendOverAxis0(x) ==
    LET from == {<<q[2], q[3]>> : q \in x}
        rows == {q[1] : q \in x}
    IN  {<<i, r[1], r[2]>> : r \in from, i \in rows}

\* a + b, entry by entry
PointwiseDeps(a, b) == a \cup b

\* Tensor.transpose((1, 0, 2))
TransposeDeps(x) == {<<q[2], q[1], q[3]>> : q \in x}

\* Tensor[:, k, :]: a matrix, followed by rows as pairs <<i, s>>
SelectDeps(x, k) == {<<q[1], q[3]>> : q \in {p \in x : p[2] = k}}

\* Sum / Max over one axis of a matrix followed by rows, keepdim: axis 1
\* reduces inside each row, axis 0 across the rows
ReduceDeps(rows, axis) ==
    IF axis = 1 THEN rows
    ELSE {<<r[1], q[2]>> : r \in rows, q \in rows}

\* the sources of row i of a matrix
RowDeps(rows, i) == {r[2] : r \in {q \in rows : q[1] = i}}

\* the members of a finite set of integers, ascending
RECURSIVE SortedSeq(_)
SortedSeq(S) ==
    IF S = {} THEN <<>>
    ELSE LET m == CHOOSE a \in S : \A b \in S : a <= b
         IN  <<m>> \o SortedSeq(S \ {m})

(* ------------------- model_mlx.py: build_attention_mask --------------- *)
\* Where(arange_out_1[..., None] >= arange_out_2[None, ...], 0.0, -inf)
BuildMaskAt(i, j) == IF i >= j THEN "0" ELSE "-inf"

\* Arange(stop=77) twice
build_attention_mask == <<MaskLen, MaskLen>>

(* ---------------------- model_mlx.py: text tower ---------------------- *)
\* main(): text_config
TextHidden == 768
TextHeads == 12
TextLayers == 12
TextIntermediate == 3072

\* encoder: num_hidden_layers encode_layers, the first fed the input and
\* each later one the previous output
RECURSIVE encoder(_, _, _, _, _, _)
encoder(hidden_size, heads, intermediate_size, layers, use_mask, xshape) ==
    IF layers = 0 \/ xshape = BadShape THEN xshape
    ELSE encoder(hidden_size, heads, intermediate_size, layers - 1, use_mask,
            encode_layer(hidden_size, heads, intermediate_size, use_mask,
                         xshape).shape)

\* token_embedding_output + position_embedding_weight[: input.shape[1]]
text_embeddings(hidden_size, max_position_embeddings, ids_shape) ==
    AddShape(<<ids_shape[1], ids_shape[2], hidden_size>>,
             <<SliceLen(max_position_embeddings, 0, ids_shape[2]),
               hidden_size>>)

\* last_hidden_state[block.arange_output, block.argmax_output]
GatherRows(last_hidden_state, arange, argmax) ==
    [b \in 1..Len(arange) |->
        last_hidden_state[arange[b] + 1][argmax[b] + 1]]

clip_text_model(hidden_size, max_position_embeddings, input_ids) ==
    LET B == Len(input_ids)
        N == Len(input_ids[1])
        embeddings_output ==
            text_embeddings(hidden_size, max_position_embeddings, <<B, N>>)
        t_encoder_output ==
            encoder(hidden_size, TextHeads, TextIntermediate, TextLayers,
                    TRUE, embeddings_output)
        last_hidden_state == HiddenStates(B, N)
        arange_output == Arange(B)
        argmax_output == [b \in 1..B |-> ArgMax(input_ids[b])]
    IN  [failed |-> FALSE,
         shape |-> IF t_encoder_output = BadShape THEN BadShape
                   ELSE <<B, hidden_size>>,
         pooled |-> IF t_encoder_output = BadShape THEN <<>>
                    ELSE GatherRows(last_hidden_state, arange_output,
                                    argmax_output),
         mask_shape |-> build_attention_mask,
         future |-> FutureWeights([p \in Probe \X Probe |->
                                   BuildMaskAt(p[1], p[2])])]

(* ------------------------ model.py: text tower ------------------------ *)
\* seq_resblocks: `layers` residual_attention_blocks, the first fed the
\* input and each later one the previous output, all given the same mask
RECURSIVE seq_resblocks(_, _, _, _, _)
seq_resblocks(width, layers, heads, use_attn_mask, xshape) ==
    IF layers = 0 \/ xshape = BadShape THEN xshape
    ELSE seq_resblocks(width, layers - 1, heads, use_attn_mask,
            residual_attention_block(width, heads, use_attn_mask,
                                     xshape).shape)

\* transformer: resblocks, then a Buffer
transformer(width, layers, heads, use_attn_mask, xshape) ==
    seq_resblocks(width, layers, heads, use_attn_mask, xshape)

\* eot_creator: ArgMax(axis=-1)(text) is computed; the output is
\* input[None, 0, 0] followed by input[None, i + 1, 0] for i < batch_number
eot_creator(batch_number, input, text) ==
    [argmax |-> [b \in 1..Len(text) |-> ArgMax(text[b])],
     output |-> [k \in 1..(batch_number + 1) |-> input[k][1]]]

(* -------------------- model.py: vision_transformer -------------------- *)
\* input = IOKey("input", shape=(1, 3, 224, 224))
VitImage == 224
\* ln_post[:, 0, :] @ IOKey("proj", shape=(1024, 768))
VitProj == 768
\* block.conv1.reshape((1, 1024, 256)); class_embedding (1, 1, 1024)
VitWidth == 1024
VitTokens == 256
\* positional_embedding, shape=(257, 1024)
VitPositions == 257

\* Concat(axis=1)(input=[class_embedding, conv1_r]): the position of the
\* class token in the sequence
VitClassPosition == 0

\* multi_head_attention: B, L = queries.shape[0], queries.shape[1]; the
\* heads are split to (B, n_head, L, d) and ScaledDotProduct runs over L
multi_head_attention_deps(x) == AttendOverAxis1(x)

\* ln_2 reads input + attention, the output is input + mlp_output
residual_attention_block_deps(x) ==
    PointwiseDeps(x, multi_head_attention_deps(x))

RECURSIVE seq_resblocks_deps(_, _)
seq_resblocks_deps(layers, x) ==
    IF layers = 0 \/ x = {} THEN x
    ELSE seq_resblocks_deps(layers - 1, residual_attention_block_deps(x))

vision_transformer(input_resolution, patch_size, width, layers, heads, output_dim, use_proj) ==
    LET input == <<1, 3, VitImage, VitImage>>
        conv1 == Conv2DShape(input, patch_size, width, patch_size, 0)
        conv1_r == TransposeShape(
                       ReshapeShape(conv1, <<1, VitWidth, VitTokens>>),
                       <<0, 2, 1>>)
        class_embedding == <<1, 1, VitWidth>>
        cat1 == ConcatShape(class_embedding, conv1_r, 1)
        positional_embedding == <<VitPositions, VitWidth>>
        ln_1 == AddShape(cat1, positional_embedding)
        transformer_visual ==
            transformer(width, layers, heads, FALSE,
                        TransposeShape(ln_1, <<1, 0, 2>>))
        ln_post == TransposeShape(transformer_visual, <<1, 0, 2>>)
        pooled == SelectShape(ln_post, 1)
        \* token t of the one image, batch-first: its source is itself
        ln_1_deps == {<<0, t, t>> : t \in 0..(VitPositions - 1)}
        transformer_deps ==
            seq_resblocks_deps(layers, TransposeDeps(ln_1_deps))
        stack_input == TransposeShape(ln_1, <<1, 0, 2>>)
    IN  [failed |-> FALSE,
         \* the axes the attention of every block takes as B and as L
         attn_batch |-> IF stack_input = BadShape THEN 0 ELSE stack_input[1],
         attn_seq |-> IF stack_input = BadShape THEN 0 ELSE stack_input[2],
         \* ln_post, batch-first again: <<0, t, s>> when token t is computed
         \* from token s
         mixing |-> TransposeDeps(transformer_deps),
         tokens |-> IF conv1_r = BadShape THEN 0 ELSE conv1_r[2],
         patches |-> conv1_r,
         class_position |-> VitClassPosition,
         pos_shape |-> positional_embedding,
         embedded |-> ln_1,
         stack_input |-> TransposeShape(ln_1, <<1, 0, 2>>),
         shape |-> IF use_proj
                   THEN MatMulShape(pooled, <<VitWidth, VitProj>>)
                   ELSE pooled]

(* --------------------------- model.py: clip --------------------------- *)
\* the additive mask the caller feeds to the "mask" input of clip
CallerMaskAt(kind, i, j) ==
    IF kind = "causal" THEN (IF i >= j THEN "0" ELSE "-inf") ELSE "0"


\* x / norm(p=2, axis=1, keepdim=True)(x), row by row
Normalized(rows) ==
    [i \in 1..Len(rows) |->
        Term("div", <<>>, <<rows[i], App("norm2", rows[i])>>)]

\* logit_scale.exp() * (image_features @ text_features.transpose())
LogitsPerImage(image_features, text_features) ==
    [i \in 1..Len(image_features) |->
        [j \in 1..Len(text_features) |->
            Term("mul", <<>>,
                 <<App("exp", Sym("logit_scale")),
                   Term("dot", <<>>,
                        <<image_features[i], text_features[j]>>)>>)]]

\* variant of LogitsPerText: the transpose of the unscaled product
\* image_features @ text_features.transpose() (the "prdo_text_img" tensor)
LogitsPerTextUnscaled(logits_per_image) ==
    Transpose2D([i \in 1..Len(logits_per_image) |->
                    [j \in 1..Len(logits_per_image[i]) |->
                        logits_per_image[i][j].args[2]]])

\* logits_per_text = logits_per_image.transpose()
LogitsPerText(logits_per_image) == Transpose2D(logits_per_image)

clip(embed_dim, vision_is_resnet, context_length, mask_kind, text) ==
    LET image_shape == IF vision_is_resnet THEN <<1, ResnetOut>>
                       ELSE <<1, VitProj>>
        image_rows == [b \in 1..image_shape[1] |->
                          Term("image_features", <<b - 1>>, <<>>)]
        B == Len(text)
        N == Len(text[1])
        token_embedding == <<B, N, TextHidden>>
        \* Reshape(shape=(1, 77, 768))
        reshaped == ReshapeShape(token_embedding, <<1, MaskLen, TextHidden>>)
        embedding == AddShape(reshaped, <<MaskLen, TextHidden>>)
        transformer_out ==
            transformer(TextHidden, TextLayers, TextHeads, TRUE, embedding)
        \* block.transformer.transpose((1, 0, 2)): sequence-major
        ln_final == Transpose2D(HiddenStates(1, MaskLen))
        eot == eot_creator(0, ln_final, text)
        eot_shape == <<Len(eot.output), TextHidden>>
        text_rows == [r \in 1..Len(eot.output) |->
                         Term("matmul", <<>>,
                              <<eot.output[r], Sym("text_projection")>>)]
        text_shape == MatMulShape(eot_shape, <<TextHidden, embed_dim>>)
        image_n == Normalized(image_rows)
        text_n == Normalized(text_rows)
        logits_shape ==
            MatMulShape(image_shape, TransposeShape(text_shape, <<1, 0>>))
        logits_per_image == LogitsPerImage(image_n, text_n)
        Built(ln_final_shape, ok) ==
            [failed |-> FALSE,
             shape |-> IF ok THEN logits_shape ELSE BadShape,
             pooled |-> IF ok THEN eot.output ELSE <<>>,
             logits_per_image |-> IF ok THEN logits_per_image ELSE <<>>,
             logits_per_text |-> IF ok THEN LogitsPerText(logits_per_image)
                                 ELSE <<>>,
             logits_per_text_shape |->
                 IF ok THEN TransposeShape(logits_shape, <<1, 0>>)
                 ELSE BadShape,
             image_shape |-> image_shape,
             text_shape |-> IF ln_final_shape # BadShape THEN text_shape
                            ELSE BadShape,
             outputs |-> {"logits_per_image", "logits_per_text"},
             mask_shape |-> DeclaredMaskShape,
             future |-> FutureWeights([p \in Probe \X Probe |->
                                       CallerMaskAt(mask_kind, p[1], p[2])])]
        Checked(ln_final_shape) ==
            Built(ln_final_shape,
                  ln_final_shape # BadShape /\ logits_shape # BadShape)
    IN  Checked(TransposeShape(transformer_out, <<1, 0, 2>>))

(* ----------------------- model_mlx.py: clip_model --------------------- *)
\* main(): vision_config
VisionHidden == 1024
VisionHeads == 16
VisionLayers == 24
VisionIntermediate == 4096
ImageSize == 224
PatchSize == 14

vision_embeddings(hidden_size, image_size, patch_size, pixel_shape) ==
    LET batch_size == pixel_shape[1]
        num_positions == ((image_size \div patch_size)
                            * (image_size \div patch_size)) + 1
        patch_embeddings ==
            TransposeShape(
                ReshapeShape(
                    Conv2DShape(pixel_shape, patch_size, hidden_size,
                                patch_size, 0),
                    <<batch_size, hidden_size, -1>>),
                <<0, 2, 1>>)
        class_token == AddShape(<<hidden_size>>, <<batch_size, 1, hidden_size>>)
        \* Concat(axis=1)
        embeddings ==
            IF patch_embeddings = BadShape THEN BadShape
            ELSE <<batch_size, 1 + patch_embeddings[2], hidden_size>>
    IN  AddShape(embeddings, <<num_positions, hidden_size>>)

\* the layout vision_embeddings gives the token sequence
vision_embeddings_layout(hidden_size, image_size, patch_size, pixel_shape) ==
    LET batch_size == pixel_shape[1]
        num_positions == ((image_size \div patch_size)
                            * (image_size \div patch_size)) + 1
        patch_embeddings ==
            TransposeShape(
                ReshapeShape(
                    Conv2DShape(pixel_shape, patch_size, hidden_size,
                                patch_size, 0),
                    <<batch_size, hidden_size, -1>>),
                <<0, 2, 1>>)
    IN  [failed |-> FALSE,
         tokens |-> IF patch_embeddings = BadShape THEN 0
                    ELSE patch_embeddings[2],
         patches |-> patch_embeddings,
         \* Concat(axis=1)([class_embedding + zeros_out, patch_embeddings])
         class_position |-> 0,
         \* Embedding(num_positions, c_embed_dim): its weight
         pos_shape |-> <<num_positions, hidden_size>>,
         embedded |-> vision_embeddings(hidden_size, image_size, patch_size,
                                        pixel_shape),
         shape |-> vision_embeddings(hidden_size, image_size, patch_size,
                                     pixel_shape)]

clip_vision_model(hidden_size, image_size, patch_size, pixel_shape) ==
    LET v_embeddings_output ==
            vision_embeddings(hidden_size, image_size, patch_size, pixel_shape)
        v_encoder_output ==
            encoder(hidden_size, VisionHeads, VisionIntermediate, VisionLayers,
                    FALSE, v_embeddings_output)
    IN  \* post_layernorm_output[:, 0, :]
        SelectShape(v_encoder_output, 1)

\* attention: B, L = queries.shape[0], queries.shape[1]; the heads are
\* split to (B, H, L, d) and ScaledDotProduct runs over L
attention_deps(x) == AttendOverAxis1(x)

\* input + attn_output + mlp_output
encode_layer_deps(x) == PointwiseDeps(x, attention_deps(x))

RECURSIVE encoder_deps(_, _)
encoder_deps(layers, x) ==
    IF layers = 0 \/ x = {} THEN x
    ELSE encoder_deps(layers - 1, encode_layer_deps(x))

\* Concat(axis=1)([class_embedding + zeros_out, patch_embeddings]) plus
\* the position embedding: every token of image row b has source b; the
\* tokens followed are those at the probed positions, the class token first
vision_embeddings_deps(batch_size, num_positions) ==
    {<<b, t, b>> : b \in 0..(batch_size - 1),
                   t \in Probe \cap 0..(num_positions - 1)}

\* pre_layrnorm -> encoder -> post_layernorm -> [:, 0, :]
clip_vision_model_deps(batch_size, num_positions) ==
    LET v_encoder_output ==
            encoder_deps(VisionLayers,
                         vision_embeddings_deps(batch_size, num_positions))
    IN  SelectDeps(v_encoder_output, 0)

\* norm(p=2, axis=1, keepdim=True) of the projected image rows
VisualNormAxis == 1

clip_model(projection_dim, max_position_embeddings, input_ids, pixel_shape, pixel_rows) ==
    LET \* text_pooler_output @ text_projection_weight.transpose(), the
        \* weight declared with shape [text_embed_dim, projection_dim]
        text_projection_output(text_pooler_shape) ==
            MatMulShape(text_pooler_shape,
                        TransposeShape(<<TextHidden, projection_dim>>, <<1, 0>>))
        visual_pooler_output ==
            clip_vision_model(VisionHidden, ImageSize, PatchSize, pixel_shape)
        visual_projection_output ==
            LinearShape(visual_pooler_output, projection_dim)
        text_rows(pooled) ==
            [b \in 1..Len(pooled) |->
                Term("matmul", <<>>,
                     <<pooled[b], Sym("text_projection_weight")>>)]
        num_positions == ((ImageSize \div PatchSize)
                            * (ImageSize \div PatchSize)) + 1
        \* Linear(projection_dim), then x / norm(p=2, axis=1)(x)
        normalized_deps(pooler_deps) ==
            PointwiseDeps(pooler_deps, ReduceDeps(pooler_deps, VisualNormAxis))
        embeds_deps ==
            normalized_deps(clip_vision_model_deps(pixel_shape[1],
                                                   num_positions))
        \* the image rows each row of image_embeds is computed from
        image_deps == [b \in 1..pixel_shape[1] |-> RowDeps(embeds_deps, b - 1)]
        \* a row of the pooler output, as a function of the contents of the
        \* image rows it is computed from
        image_rows(deps) ==
            [b \in 1..pixel_shape[1] |->
                App("visual_projection",
                    Term("visual_pooler_output",
                         [k \in 1..Len(deps[b]) |->
                             pixel_rows[deps[b][k] + 1]],
                         <<>>))]
        Built(text, deps) ==
            [failed |-> FALSE,
             shape |-> visual_projection_output,
             image_deps |-> deps,
             text_shape |-> text_projection_output(text.shape),
             pooled |-> text.pooled,
             image_embeds |->
                 Normalized(image_rows([b \in 1..pixel_shape[1] |->
                                           SortedSeq(deps[b])])),
             text_embeds |-> Normalized(text_rows(text.pooled)),
             outputs |-> {"t_p_output", "image_embeds", "text_embeds"},
             mask_shape |-> text.mask_shape,
             future |-> text.future]
    IN  Built(clip_text_model(TextHidden, max_position_embeddings, input_ids),
              image_deps)

(* --------------------------- stack wiring ----------------------------- *)
\* A stack is followed as the sequence of its blocks, in the order the
\* loop adds them: the loop index, the key each block reads, the mask it
\* is given and the key it writes.

\* output=f"attn_output_{idx}"
OutputKey(idx) == Term("attn_output", <<idx>>, <<>>)

\* variant of NextInputKey: the next block reads the stack input again
KeepInputKey(idx) == Sym("input")

\* input_key = f"attn_output_{idx}"
NextInputKey(idx) == Term("attn_output", <<idx>>, <<>>)

\* for idx in range(layers): block |= ...(input=input_key, mask=mask,
\* output=f"attn_output_{idx}"); input_key = f"attn_output_{idx}"
RECURSIVE StackLoop(_, _, _, _)
StackLoop(idx, layers, input_key, mask) ==
    IF idx >= layers THEN <<>>
    ELSE <<[idx |-> idx, input |-> input_key, mask |-> mask,
            output |-> OutputKey(idx)]>>
         \o StackLoop(idx + 1, layers, NextInputKey(idx), mask)

\* the stack built by a loop, closed by
\* Buffer()(input=f"attn_output_{idx}", output=IOKey("output")) with idx
\* left over from the loop: unbound when the loop never ran
StackOf(blocks) ==
    IF blocks = <<>>
    THEN [failed |-> TRUE, blocks |-> blocks, output |-> Sym("input")]
    ELSE [failed |-> FALSE, blocks |-> blocks,
          output |-> OutputKey(blocks[Len(blocks)].idx)]

\* model.py: seq_resblocks; with use_attn_mask every block is given the
\* stack's "mask" input
seq_resblocks_wiring(layers, use_attn_mask) ==
    StackOf(StackLoop(0, layers, Sym("input"),
                      IF use_attn_mask THEN Sym("mask") ELSE Sym("no_mask")))

\* model_mlx.py: encoder; with use_mask the attention of every
\* encode_layer builds build_attention_mask() for itself
encoder_wiring(layers, use_mask) ==
    StackOf(StackLoop(0, layers, Sym("input"),
                      IF use_mask THEN Sym("build_attention_mask")
                      ELSE Sym("no_mask")))

(* ------------------------------- norm --------------------------------- *)
\* The order p of a norm: the string "inf" or an integer.
PInf == [inf |-> TRUE, n |-> 0]

PInt(n) == [inf |-> FALSE, n |-> n]

\* Connection.abs()
Abs(x) == IF x < 0 THEN 0 - x ELSE x

\* Connection ** n, n a natural number
RECURSIVE Pow(_, _)
Pow(x, n) == IF n = 0 THEN 1 ELSE x * Pow(x, n - 1)

\* Sum over the entries reduced together
RECURSIVE SumSeq(_)
SumSeq(lane) == IF lane = <<>> THEN 0 ELSE Head(lane) + SumSeq(Tail(lane))

\* Max over the entries reduced together
MaxSeq(lane) ==
    CHOOSE m \in {lane[k] : k \in 1..Len(lane)} :
        \A k \in 1..Len(lane) : lane[k] <= m

\* the real number radicand ^ (1 / index), kept exact as a pair
Root(radicand, index) == <<radicand, index>>

\* Sqrt()
Sqrt(v) == Root(v, 2)

\* Power(exponent=(1 / p))
PowerInv(v, p) == Root(v, p)

\* the entries of a matrix that a reduction over `axis` reduces together:
\* for axis 1 the rows, for axis 0 the columns
Lanes(input, axis) == IF axis = 1 THEN input ELSE Transpose2D(input)

\* the shape of a matrix reduced over `axis`
ReducedShape(input, axis, keepdim) ==
    LET shape == <<Len(input), Len(input[1])>>
    IN  IF keepdim THEN [i \in 1..2 |-> IF i = axis + 1 THEN 1 ELSE shape[i]]
        ELSE <<shape[2 - axis]>>

\* variant of SumOfSquares: the entries are summed without being squared
SumOfEntries(lane) == SumSeq(lane)

\* Sum(axis=axis, keepdim=keepdim)(input=(input**2))
SumOfSquares(lane) == SumSeq([k \in 1..Len(lane) |-> Pow(lane[k], 2)])

\* model.py: norm
norm(p, axis, keepdim, input) ==
    LET lanes == Lanes(input, axis)
        abs(lane) == [k \in 1..Len(lane) |-> Abs(lane[k])]
        value(lane) ==
            IF p.inf THEN Root(MaxSeq(abs(lane)), 1)
            ELSE IF p.n = 1 THEN Root(SumSeq(abs(lane)), 1)
            ELSE IF p.n = 2 THEN Sqrt(SumOfSquares(lane))
            ELSE PowerInv(SumSeq([k \in 1..Len(lane) |->
                                     Pow(Abs(lane[k]), p.n)]), p.n)
    IN  [failed |-> FALSE,
         shape |-> ReducedShape(input, axis, keepdim),
         values |-> [k \in 1..Len(lanes) |-> value(lanes[k])]]

\* model_mlx.py: norm, the same branches; the last one asserts
\* isinstance(p, int)
norm_mlx(p, axis, keepdim, input) ==
    LET lanes == Lanes(input, axis)
        abs(lane) == [k \in 1..Len(lane) |-> Abs(lane[k])]
        value(lane) ==
            IF p.inf THEN Root(MaxSeq(abs(lane)), 1)
            ELSE IF p.n = 1 THEN Root(SumSeq(abs(lane)), 1)
            ELSE IF p.n = 2 THEN Sqrt(SumOfSquares(lane))
            ELSE PowerInv(SumSeq([k \in 1..Len(lane) |->
                                     Pow(Abs(lane[k]), p.n)]), p.n)
    IN  [failed |-> ~p.inf /\ p.n \notin Int,
         shape |-> ReducedShape(input, axis, keepdim),
         values |-> [k \in 1..Len(lanes) |-> value(lanes[k])]]

(* ------------------------------ state --------------------------------- *)
Lens == (1..MaxLen) \cup {MaskLen}

Init ==
    /\ comp = "none"
    /\ args = [d_model |-> 0]
    /\ out = [failed |-> FALSE]

Build_multi_head_attention ==
    /\ comp = "none"
    /\ \E d \in 1..MaxDim, h \in 1..MaxHeads, m \in BOOLEAN,
          B \in 1..MaxBatch, L \in Lens, din \in 1..MaxDim :
        /\ comp' = "multi_head_attention"
        /\ args' = [d_model |-> d, n_head |-> h, use_attn_mask |-> m,
                    queries |-> <<B, L, din>>]
        /\ out' = multi_head_attention(d, h, m, <<B, L, din>>)

Build_attention ==
    /\ comp = "none"
    /\ \E d \in 1..MaxDim, h \in 1..MaxHeads, m \in BOOLEAN,
          B \in 1..MaxBatch, L \in Lens, S \in Lens :
        /\ comp' = "attention"
        /\ args' = [d_model |-> d, n_head |-> h, use_attn_mask |-> m,
                    queries |-> <<B, L, d>>, keys |-> <<B, S, d>>]
        /\ out' = attention(d, h, m, <<B, L, d>>, <<B, S, d>>)

Build_residual_attention_block ==
    /\ comp = "none"
    /\ \E d \in 1..MaxDim, h \in 1..MaxHeads, m \in BOOLEAN,
          B \in 1..MaxBatch, L \in Lens :
        /\ comp' = "residual_attention_block"
        /\ args' = [d_model |-> d, n_head |-> h, use_attn_mask |-> m,
                    input |-> <<B, L, d>>]
        /\ out' = residual_attention_block(d, h, m, <<B, L, d>>)

Build_encode_layer ==
    /\ comp = "none"
    /\ \E d \in 1..MaxDim, h \in 1..MaxHeads, m \in BOOLEAN,
          B \in 1..MaxBatch, L \in Lens, f \in 1..MaxDim :
        /\ comp' = "encode_layer"
        /\ args' = [d_model |-> d, n_head |-> h, use_attn_mask |-> m,
                    intermediate_size |-> f * d, input |-> <<B, L, d>>]
        /\ out' = encode_layer(d, h, f * d, m, <<B, L, d>>)

Build_multi_head_attention_forward ==
    /\ comp = "none"
    /\ \E e \in (1..MaxDim) \cup {PoolEmbed}, h \in 1..MaxHeads :
        /\ comp' = "multi_head_attention_forward"
        /\ args' = [d_model |-> PoolEmbed, n_head |-> h,
                    embed_dim_to_check |-> e]
        /\ out' = multi_head_attention_forward(e, h)

Build_attention_pool2d ==
    /\ comp = "none"
    /\ \E e \in (1..MaxDim) \cup {PoolEmbed}, h \in 1..MaxHeads :
        /\ comp' = "attention_pool2d"
        /\ args' = [d_model |-> PoolEmbed, n_head |-> h,
                    spacial_dim |-> PoolSide, embed_dim |-> e]
        /\ out' = attention_pool2d(PoolSide, e, h)

Build_bottleneck ==
    /\ comp = "none"
    /\ \E planes \in 1..MaxPlanes, stride \in 1..MaxStride,
          B \in 1..MaxBatch, H \in 1..MaxSide, W \in 1..MaxSide :
       \E inplanes \in 1..(Expansion * MaxPlanes) :
       \E C \in {inplanes, planes * Expansion} :
        /\ comp' = "bottleneck"
        /\ args' = [inplanes |-> inplanes, planes |-> planes,
                    stride |-> stride, input |-> <<B, C, H, W>>]
        /\ out' = bottleneck(inplanes, planes, stride, <<B, C, H, W>>)

\* token ids of a prompt, zero-padded to the context length
PadRow(prefix, n) ==
    [i \in 1..n |-> IF i <= Len(prefix) THEN prefix[i] ELSE 0]

Tokens == {12, 99}

TextRows(n) ==
    {PadRow(p, n) : p \in [1..PrefixLen -> Tokens]}
        \cup {PadRow(<<5, 12, 99, 7>>, n)}

ContextLengths == {MaskLen - 1, MaskLen}

Build_clip_text_model ==
    /\ comp = "none"
    /\ \E ctx \in ContextLengths, B \in 1..MaxBatch :
       \E ids \in [1..B -> TextRows(ctx)] :
        /\ comp' = "clip_text_model"
        /\ args' = [context_length |-> ctx, text |-> ids]
        /\ out' = clip_text_model(TextHidden, ctx, ids)

Build_clip ==
    /\ comp = "none"
    /\ \E ctx \in ContextLengths, e \in {VitProj, ResnetOut},
          resnet \in BOOLEAN, kind \in {"causal", "zeros"} :
       \E ids \in [1..1 -> TextRows(ctx)] :
        /\ comp' = "clip"
        /\ args' = [context_length |-> ctx, text |-> ids, embed_dim |-> e,
                    vision_is_resnet |-> resnet, mask |-> kind]
        /\ out' = clip(e, resnet, ctx, kind, ids)

\* patch sizes and widths of the published vision transformers
PatchSizes == {PatchSize, 16, 32}

Widths == {TextHidden, VitWidth}

Build_vision_transformer ==
    /\ comp = "none"
    /\ \E patch_size \in PatchSizes, width \in Widths,
          layers \in 1..MaxLayers, output_dim \in {TextHidden, VitWidth},
          use_proj \in BOOLEAN :
        /\ comp' = "vision_transformer"
        /\ args' = [image_size |-> VitImage, patch_size |-> patch_size,
                    width |-> width, layers |-> layers,
                    heads |-> width \div 64, output_dim |-> output_dim,
                    use_proj |-> use_proj, batch |-> 1]
        /\ out' = vision_transformer(VitImage, patch_size, width, layers,
                                     width \div 64, output_dim, use_proj)

Build_vision_embeddings ==
    /\ comp = "none"
    /\ \E hidden_size \in 1..MaxDim, image_size \in 1..MaxSide,
          B \in 1..MaxBatch :
       \E patch_size \in 1..image_size :
        /\ comp' = "vision_embeddings"
        /\ args' = [image_size |-> image_size, patch_size |-> patch_size,
                    width |-> hidden_size, batch |-> B]
        /\ out' = vision_embeddings_layout(hidden_size, image_size,
                        patch_size, <<B, 3, image_size, image_size>>)

Build_make_layer ==
    /\ comp = "none"
    /\ \E inplanes \in 1..MaxPlanes, f \in 1..MaxPlanes,
          blocks \in 1..MaxBlocks, stride \in 1..MaxStride,
          B \in 1..MaxBatch, H \in 1..MaxSide :
       \E C \in {inplanes, 4 * inplanes} :
        /\ comp' = "make_layer"
        /\ args' = [inplanes |-> inplanes, planes |-> f * inplanes,
                    blocks |-> blocks, stride |-> stride,
                    input |-> <<B, C, H, H>>]
        /\ out' = make_layer(inplanes, f * inplanes, blocks, stride,
                             <<B, C, H, H>>)

\* widths and resolutions of the published residual networks
ResnetWidths == {32, 64}

ResnetResolutions == {ResnetImage, 288}

Build_modified_resnet ==
    /\ comp = "none"
    /\ \E layers \in [1..4 -> 1..MaxBlocks], width \in ResnetWidths,
          input_resolution \in ResnetResolutions :
        /\ comp' = "modified_resnet"
        /\ args' = [layers |-> layers, width |-> width,
                    input_resolution |-> input_resolution,
                    heads |-> (width * 32) \div 64, output_dim |-> ResnetOut]
        /\ out' = modified_resnet(layers, ResnetOut, (width * 32) \div 64,
                                  input_resolution, width)

Build_seq_resblocks ==
    /\ comp = "none"
    /\ \E layers \in 0..MaxLayers, m \in BOOLEAN :
        /\ comp' = "seq_resblocks"
        /\ args' = [layers |-> layers, use_attn_mask |-> m]
        /\ out' = seq_resblocks_wiring(layers, m)

Build_encoder ==
    /\ comp = "none"
    /\ \E layers \in 0..MaxLayers, m \in BOOLEAN :
        /\ comp' = "encoder"
        /\ args' = [layers |-> layers, use_attn_mask |-> m]
        /\ out' = encoder_wiring(layers, m)

\* entries of the matrices fed to norm
NormEntries == {-2, 0, 1}

Orders == {PInf} \cup {PInt(n) : n \in 1..MaxP}

Build_norm ==
    /\ comp = "none"
    /\ \E p \in Orders, axis \in {0, 1}, keepdim \in BOOLEAN,
          input \in [1..2 -> [1..2 -> NormEntries]] :
        /\ comp' = "norm"
        /\ args' = [p |-> p, axis |-> axis, keepdim |-> keepdim,
                    input |-> input]
        /\ out' = norm(p, axis, keepdim, input)

Build_norm_mlx ==
    /\ comp = "none"
    /\ \E p \in Orders, axis \in {0, 1}, keepdim \in BOOLEAN,
          input \in [1..2 -> [1..2 -> NormEntries]] :
        /\ comp' = "norm_mlx"
        /\ args' = [p |-> p, axis |-> axis, keepdim |-> keepdim,
                    input |-> input]
        /\ out' = norm_mlx(p, axis, keepdim, input)

\* the contents of a batch of images, one identifier per row: all rows the
\* same image, or pairwise different images
ImageRows(B, same) == [b \in 1..B |-> IF same THEN 1 ELSE b]

Build_clip_model ==
    /\ comp = "none"
    /\ \E ctx \in ContextLengths, B \in 1..MaxBatch,
          proj \in {TextHidden, VisionHidden}, same \in BOOLEAN :
       \E ids \in [1..B -> TextRows(ctx)] :
       LET images == ImageRows(B, same) IN
        /\ comp' = "clip_model"
        /\ args' = [context_length |-> ctx, text |-> ids,
                    projection_dim |-> proj,
                    pixel_values |-> <<B, 3, ImageSize, ImageSize>>,
                    images |-> images]
        /\ out' = clip_model(proj, ctx, ids, <<B, 3, ImageSize, ImageSize>>,
                             images)

Next ==
    \/ Build_multi_head_attention
    \/ Build_attention
    \/ Build_residual_attention_block
    \/ Build_encode_layer
    \/ Build_multi_head_attention_forward
    \/ Build_attention_pool2d
    \/ Build_bottleneck
    \/ Build_clip_text_model
    \/ Build_clip
    \/ Build_clip_model
    \/ Build_vision_transformer
    \/ Build_vision_embeddings
    \/ Build_make_layer
    \/ Build_modified_resnet
    \/ Build_seq_resblocks
    \/ Build_encoder
    \/ Build_norm
    \/ Build_norm_mlx

Spec == Init /\ [][Next]_vars

(* ------------------------------ claims -------------------------------- *)
ResidualBlocks == {"residual_attention_block", "encode_layer"}

\* the expression (x + Attn(LN1(x))) + MLP(LN2(x + Attn(LN1(x))))
PreNormBlock(x) ==
    LET a == Add(x, App("Attn", App("LN1", x)))
    IN  Add(a, App("MLP", App("LN2", a)))

\* C1: the output of every residual attention block is
\* (x + Attn(LN1(x))) + MLP(LN2(x + Attn(LN1(x)))), in both implementations.
C1_ResidualSum ==
    (comp \in ResidualBlocks /\ ~out.failed)
        => out.output = PreNormBlock(Sym("input"))

AttentionPaths ==
    {"multi_head_attention", "attention", "multi_head_attention_forward"}

TextTowers == {"clip", "clip_text_model"}

\* C2: in both text towers the pooled vector of batch row b is the final
\* hidden state of row b at position argmax(token_ids[b]), the first
\* maximum on ties.
C2_EotPooling ==
    (comp \in TextTowers /\ out.shape # BadShape)
    => /\ Len(out.pooled) = Len(args.text)
       /\ \A b \in 1..Len(args.text) :
              out.pooled[b] = Hidden(b - 1, ArgMax(args.text[b]))

\* C3: every text tower runs its attention under the causal mask of shape
\* (context_length, context_length), so no position puts weight on a later
\* one, whatever the caller supplies.
C3_CausalMask ==
    comp \in TextTowers
    => /\ out.mask_shape = <<args.context_length, args.context_length>>
       /\ out.future = {}

\* C4: every attention path scales the query-key scores by 1/sqrt(head_dim)
\* exactly once, the scaling inside ScaledDotProduct included.
C4_ScaledOnce ==
    (comp \in AttentionPaths /\ ~out.failed) => out.scalings = 1

\* C5: attention_pool2d puts the spatial mean at index 0 of the
\* (tokens+1)-long sequence, queries with that token alone and uses the
\* whole sequence as keys and values.
C5_MeanTokenIsQuery ==
    comp = "attention_pool2d" =>
        /\ Len(out.x) = out.tokens + 1
        /\ out.x[1] = Add(out.mean, Term("positional_embedding", <<0>>, <<>>))
        /\ out.query = <<out.x[1]>>
        /\ out.key = out.x
        /\ out.value = out.x

AttentionComponents ==
    {"multi_head_attention", "residual_attention_block",
     "multi_head_attention_forward", "attention"}

\* C6: constructing an attention component whose hidden size is not a
\* multiple of its head count fails at construction time.
C6_IndivisibleFails ==
    (comp \in AttentionComponents /\ args.d_model % args.n_head # 0)
        => out.failed

\* C7: logits_per_text is the transpose of logits_per_image, entry by entry.
C7_LogitsTransposed ==
    (comp = "clip" /\ out.shape # BadShape)
    => /\ out.logits_per_text_shape = <<out.shape[2], out.shape[1]>>
       /\ Len(out.logits_per_image) = out.shape[1]
       /\ Len(out.logits_per_text) = out.shape[2]
       /\ \A i \in 1..Len(out.logits_per_text) :
              /\ Len(out.logits_per_text[i]) = Len(out.logits_per_image)
              /\ \A j \in 1..Len(out.logits_per_image) :
                     out.logits_per_text[i][j] = out.logits_per_image[j][i]

C7_Witness ==
    /\ comp = "clip"
    /\ out.shape = <<1, 1>>
    /\ out.logits_per_image[1][1].op = "mul"
    /\ out.logits_per_image[1][1].args[1] = App("exp", Sym("logit_scale"))
    /\ out.logits_per_text[1][1] = out.logits_per_image[1][1]

DeclaredOutputs ==
    {"image_embeds", "text_embeds", "logits_per_image", "logits_per_text"}

\* C8: every CLIP model exposes the four outputs image_embeds, text_embeds,
\* logits_per_image and logits_per_text.
C8_FourOutputs ==
    comp \in {"clip", "clip_model"} => DeclaredOutputs \subseteq out.outputs

\* C9: a bottleneck fed inplanes channels and a spatial size divisible by
\* stride takes the raw input as shortcut exactly when stride = 1 and
\* inplanes = 4 * planes, the downsample path otherwise, and both operands
\* of the residual add have shape (B, 4 * planes, H / stride, W / stride).
C9_BottleneckShortcut ==
    (/\ comp = "bottleneck"
     /\ args.input[2] = args.inplanes
     /\ args.input[3] % args.stride = 0
     /\ args.input[4] % args.stride = 0)
    => LET want == <<args.input[1], args.planes * 4,
                     args.input[3] \div args.stride,
                     args.input[4] \div args.stride>>
       IN  /\ (out.shortcut = "input")
                 <=> (args.stride = 1 /\ args.inplanes = args.planes * 4)
           /\ out.shortcut \in {"input", "downsample"}
           /\ out.main = want
           /\ out.shortcut_shape = want

C9_Witness ==
    /\ comp = "bottleneck"
    /\ args.input[2] = args.inplanes
    /\ args.stride = 2
    /\ args.inplanes = args.planes * 4
    /\ args.input[3] = 4
    /\ args.input[4] = 2
    /\ out.shortcut = "downsample"
    /\ out.shape = <<args.input[1], args.inplanes, 2, 1>>

MultiHeadAttentions == {"multi_head_attention", "attention"}

\* the attention call is shape-valid: no mask, or a sequence as long as the
\* mask the block declares
MaskFits ==
    \/ ~args.use_attn_mask
    \/ /\ args.queries[2] = MaskLen
       /\ (comp = "attention" => args.keys[2] = MaskLen)

BlockMaskFits == ~args.use_attn_mask \/ args.input[2] = MaskLen

C12_ProjectionShapes ==
    /\ (comp = "clip_model" /\ args.context_length = MaskLen)
       => /\ out.shape = <<args.pixel_values[1], args.projection_dim>>
          /\ out.text_shape = <<Len(args.text), args.projection_dim>>
    /\ (comp = "clip" /\ args.context_length = MaskLen)
       => /\ out.image_shape = <<1, args.embed_dim>>
          /\ out.text_shape = <<Len(args.text), args.embed_dim>>

\* C13: row b of clip_model's image_embeds is computed from row b of
\* pixel_values and the parameters alone: it is what a batch holding that
\* one image gives, so rows holding the same image get the same embedding.
C13_RowIndependence ==
    (comp = "clip_model" /\ out.shape # BadShape)
    => /\ Len(out.image_embeds) = Len(args.images)
       /\ \A b \in 1..Len(args.images) :
              /\ out.image_deps[b] = {b - 1}
              /\ out.image_embeds[b] =
                     Normalized(<<App("visual_projection",
                                      Term("visual_pooler_output",
                                           <<args.images[b]>>, <<>>))>>)[1]
              /\ \A c \in 1..Len(args.images) :
                     args.images[b] = args.images[c]
                         => out.image_embeds[b] = out.image_embeds[c]

C13_Witness ==
    /\ comp = "clip_model"
    /\ args.images = <<1, 1>>
    /\ args.text[1] # args.text[2]
    /\ out.shape = <<2, args.projection_dim>>
    /\ out.image_deps = <<{0}, {1}>>
    /\ out.image_embeds[1] = out.image_embeds[2]

Norms == {"norm", "norm_mlx"}

\* sum(|x|^n)^(1/n) over the entries reduced together
GeneralNorm(lane, n) ==
    Root(SumSeq([k \in 1..Len(lane) |-> Pow(Abs(lane[k]), n)]), n)

Stacks == {"seq_resblocks", "encoder"}

\* C15: a stack of N >= 1 layers applies blocks 0..N-1 in order: block 0
\* reads the stack input, block k the output of block k-1, the stack output
\* is the output of block N-1 unchanged, and with a mask every block is
\* given the same mask.
C15_StackOrder ==
    (comp \in Stacks /\ args.layers >= 1)
    => LET blocks == out.blocks
           N == args.layers
       IN  /\ ~out.failed
           /\ Len(blocks) = N
           /\ \A k \in 1..N : blocks[k].idx = k - 1
           /\ \A k \in 1..N : \A j \in 1..N :
                  (blocks[k].output = blocks[j].output) => k = j
           /\ \A k \in 1..N : blocks[k].output # Sym("input")
           /\ blocks[1].input = Sym("input")
           /\ \A k \in 2..N : blocks[k].input = blocks[k - 1].output
           /\ out.output = blocks[N].output
           /\ \A k \in 1..N :
                  /\ blocks[k].mask = blocks[1].mask
                  /\ args.use_attn_mask <=> (blocks[k].mask # Sym("no_mask"))

C15_Witness ==
    /\ comp \in Stacks
    /\ args.layers = 3
    /\ args.use_attn_mask
    /\ Len(out.blocks) = 3
    /\ out.blocks[3].input = out.blocks[2].output
    /\ out.blocks[2].input = out.blocks[1].output
    /\ out.output = out.blocks[3].output

VisionEmbedders == {"vision_transformer", "vision_embeddings"}

\* C16: for the image_size, patch_size and width given at construction the
\* patch sequence of the vision transformer has (image_size / patch_size)^2
\* entries of that width, the class token is at position 0 and the
\* positional embedding that is added has shape (tokens + 1, width).
C16_PatchSequence ==
    comp \in VisionEmbedders
    => LET side == args.image_size \div args.patch_size
           tokens == side * side
       IN  /\ out.patches = <<args.batch, tokens, args.width>>
           /\ out.tokens = tokens
           /\ out.class_position = 0
           /\ out.pos_shape = <<tokens + 1, args.width>>
           /\ out.embedded = <<args.batch, tokens + 1, args.width>>

\* C17: in the vision transformer of model.py every attention layer takes
\* the image batch as its batch axis and the tokens + 1 tokens as its
\* sequence axis, so after the stack every token is computed from all
\* tokens + 1 tokens of its image.
C17_AttendsOverTokens ==
    (comp = "vision_transformer" /\ out.shape # BadShape)
    => /\ out.attn_batch = args.batch
       /\ out.attn_seq = out.tokens + 1
       /\ \A t \in 0..out.tokens : \A u \in 0..out.tokens :
              <<0, t, u>> \in out.mixing

\* 2^(s-1) for the stages s = 1..4
StageFactor(stage) ==
    IF stage = 1 THEN 1 ELSE IF stage = 2 THEN 2 ELSE IF stage = 3 THEN 4 ELSE 8

\* C18: in a modified_resnet that builds, stage s has bottleneck width
\* width * 2^(s-1); every block of stage 1 has stride 1; in stages 2, 3 and
\* 4 the first block has stride 2 and every later one stride 1; the feature
\* map entering the attention pool has 32 * width channels and spatial
\* size input_resolution / 32.
C18_StagePlan ==
    (comp = "modified_resnet" /\ ~out.failed)
    => /\ Len(out.stages) = 4
       /\ \A st \in 1..4 :
              LET chain == out.stages[st].chain
              IN  /\ Len(chain) = args.layers[st]
                  /\ \A k \in 1..Len(chain) :
                         /\ chain[k].planes = args.width * StageFactor(st)
                         /\ chain[k].stride =
                                IF st > 1 /\ k = 1 THEN 2 ELSE 1
       /\ out.feature = <<1, 32 * args.width,
                          args.input_resolution \div 32,
                          args.input_resolution \div 32>>

\* C19: in every stage of a modified_resnet that builds, each bottleneck is
\* passed as inplanes the channel count of the tensor it receives, every
\* bottleneck after the first of its stage uses the identity shortcut, and
\* the projected shortcut is used only where the input and output shapes
\* differ.
C19_IdentityShortcuts ==
    (comp = "modified_resnet" /\ ~out.failed)
    => \A st \in 1..4 :
          LET chain == out.stages[st].chain
          IN  \A k \in 1..Len(chain) :
                 /\ chain[k].inplanes = chain[k].input[2]
                 /\ k > 1 => chain[k].shortcut = "input"
                 /\ chain[k].shortcut = "downsample"
                        => chain[k].input # chain[k].shape

\* C20: for every blocks >= 1 make_layer builds a chain of exactly `blocks`
\* bottlenecks, each fed the one before it, and returns the output of the
\* last one; no step reads a name that was never bound.
C20_ChainBuilds ==
    (comp = "make_layer" /\ args.blocks >= 1)
    => /\ ~out.failed
       /\ Len(out.chain) = args.blocks
       /\ out.chain[1].input = args.input
       /\ \A k \in 2..Len(out.chain) :
              out.chain[k].input = out.chain[k - 1].shape
       /\ out.output = args.blocks - 1
       /\ out.shape = out.chain[args.blocks].shape

\* C21: both attention implementations of model.py cut the fused
\* in-projection alike: for embedding width D the query takes the entries
\* [0, D), the key [D, 2D) and the value [2D, 3D), three disjoint contiguous
\* slices covering [0, 3D); in multi_head_attention_forward the width of the
\* query slice equals the width of the key and value slices on every call.
C21_InProjSlices ==
    (comp \in {"multi_head_attention", "multi_head_attention_forward"}
     /\ ~out.failed)
    => /\ out.q_slice = <<0, args.d_model>>
       /\ out.k_slice = <<args.d_model, 2 * args.d_model>>
       /\ out.v_slice = <<2 * args.d_model, 3 * args.d_model>>
       /\ out.q_slice[2] - out.q_slice[1] = out.k_slice[2] - out.k_slice[1]
       /\ out.q_slice[2] - out.q_slice[1] = out.v_slice[2] - out.v_slice[1]

====
